---- MODULE Spec2Model ----
(***************************************************************************)
(* Model of jsonalchemy/wrappers.py: schema-carrying proxy nodes           *)
(* (JSONObject, JSONArray, JSONString, JSONInteger, JSONNumber), the wrap  *)
(* dispatcher, the positional schema threading of JSONArray, validation    *)
(* and the transactional `validation` context manager.                     *)
(*                                                                         *)
(* Python objects live in a heap: a sequence of node records, the object   *)
(* identity being the index.  A container stores slots: a positive slot    *)
(* is the identity of a proxy node, a non-positive slot is one of the      *)
(* values wrap() passes through unwrapped (None, True, False).             *)
(* The interpreter is Python 2 (the module defines __setslice__).          *)
(***************************************************************************)
EXTENDS Integers, Sequences, FiniteSets, TLC

VARIABLES heap,      \* Seq of node records; identity = index
          top,       \* identity of the document the caller holds
          tx,        \* the JSONValidation object: [active, json, copy]
          pre,       \* content of tx.json when the context was entered
          last,      \* record describing the last operation performed
          err,       \* outcome of the last operation ("ok" or exception)
          ops        \* number of operations the run may still perform

vars == <<heap, top, tx, pre, last, err, ops>>

---------------------------------------------------------------------------
(* Bounds of the model *)
MaxOps == 3
MaxArrOps == 2
MaxNodes == 9
MaxWrapOps == 2
MaxDerivedOps == 3

---------------------------------------------------------------------------
(* Slots and references *)
NoRef == 0
PNull == 0
PTrue == -1
PFalse == -2
Absent == -9

Keys == {"authors", "family_name"}
KeyOrder == <<"authors", "family_name">>

---------------------------------------------------------------------------
(* Schema fragments.  A fragment is named by its index in SchemaDef;      *)
(* SNone is Python's None, SEmpty the empty mapping {}.                    *)
SNone == 0
SEmpty == 1
SDoc == 2
SAuthors == 3
SAuthor == 4
SStr == 5
SInt == 6
SBool == 7
SAddr == 8
SList == 9
SCalcDoc == 10
SCalc == 11
SGuardDoc == 12
SGuard == 13
STemplDoc == 14
STempl == 15
SBothDoc == 16
SBoth == 17
SRemote == 18
SExt == 19
SOpen == 20
SLocalMissing == 21
SBad == 22
SEnum == 23
SEnumDoc == 24
LastSchema == 24

NoProps == [k \in Keys |-> SNone]

Frag(type, props, itemsKind, items) ==
    [type |-> type, props |-> props, itemsKind |-> itemsKind, items |-> items]

SchemaDef ==
    [s \in 0..LastSchema |->
       CASE s = SNone    -> Frag("none", NoProps, "absent", <<>>)
         [] s = SEmpty   -> Frag("any", NoProps, "absent", <<>>)
         [] s = SDoc     -> Frag("object",
                                 [NoProps EXCEPT !["authors"] = SAuthors],
                                 "absent", <<>>)
         [] s = SAuthors -> Frag("array", NoProps, "dict", <<SAuthor>>)
         [] s = SAuthor  -> Frag("object",
                                 [NoProps EXCEPT !["family_name"] = SStr],
                                 "absent", <<>>)
         [] s = SStr     -> Frag("string", NoProps, "absent", <<>>)
         [] s = SInt     -> Frag("integer", NoProps, "absent", <<>>)
         [] s = SBool    -> Frag("boolean", NoProps, "absent", <<>>)
         [] s = SAddr    -> Frag("array", NoProps, "list", <<SInt, SStr, SBool>>)
         [] s = SList    -> Frag("array", NoProps, "dict", <<SStr>>)
         [] s = SCalcDoc -> Frag("object",
                                 [NoProps EXCEPT !["authors"] = SCalc,
                                                 !["family_name"] = SStr],
                                 "absent", <<>>)
         [] s = SGuardDoc -> Frag("object",
                                  [NoProps EXCEPT !["authors"] = SGuard,
                                                  !["family_name"] = SStr],
                                  "absent", <<>>)
         [] s = STemplDoc -> Frag("object",
                                  [NoProps EXCEPT !["authors"] = STempl,
                                                  !["family_name"] = SStr],
                                  "absent", <<>>)
         [] s = SBothDoc -> Frag("object",
                                 [NoProps EXCEPT !["authors"] = SBoth,
                                                 !["family_name"] = SStr],
                                 "absent", <<>>)
         [] s \in {SCalc, SGuard, STempl, SBoth} ->
                            Frag("string", NoProps, "absent", <<>>)
         [] s \in {SRemote, SLocalMissing} ->
                            Frag("any", NoProps, "absent", <<>>)
         [] s = SExt     -> Frag("object",
                                 [NoProps EXCEPT !["family_name"] = SRemote],
                                 "absent", <<>>)
         [] s = SOpen    -> Frag("object",
                                 [NoProps EXCEPT !["family_name"] = SEmpty],
                                 "absent", <<>>)
         [] s = SBad     -> Frag("object",
                                 [NoProps EXCEPT !["family_name"] = SLocalMissing],
                                 "absent", <<>>)
         [] s = SEnum    -> Frag("string", NoProps, "absent", <<>>)
         [] s = SEnumDoc -> Frag("object",
                                 [NoProps EXCEPT !["authors"] = SList,
                                                 !["family_name"] = SEnum],
                                 "absent", <<>>)]

\* The 'enumSource' of a fragment: the name of the property of the root
\* that holds the allowed values, "" when the fragment has no such key
EnumDef ==
    [s \in 0..LastSchema |-> IF s = SEnum THEN "authors" ELSE ""]

\* The '$ref' of a fragment: "remote" is {'$ref': 'http://...'}, "local"
\* is {'$ref': '#'}, a path the schema does not hold
RefDef ==
    [s \in 0..LastSchema |->
       CASE s = SRemote       -> "remote"
         [] s = SLocalMissing -> "local"
         [] OTHER             -> "none"]

\* The hooks a fragment declares for a derived property: 'getter' and
\* 'setter' name functions of jsonalchemy.fortests.helpers, 'template' is
\* a template that renders the one value 'watch' names.  The derived
\* property of the documents above is "authors", computed from
\* "family_name".
Hook(getter, setter, template, watch) ==
    [getter |-> getter, setter |-> setter, template |-> template, watch |-> watch]

NoHook == Hook("none", "none", FALSE, "")

HookDef ==
    [s \in 0..LastSchema |->
       CASE s = SCalc  -> Hook("author", "none", FALSE, "")
         [] s = SGuard -> Hook("author", "raise_error", FALSE, "")
         [] s = STempl -> Hook("none", "none", TRUE, "family_name")
         [] s = SBoth  -> Hook("author", "none", TRUE, "family_name")
         [] OTHER      -> NoHook]

\* `schema or {}`
OrEmpty(schema) == IF schema = SNone THEN SEmpty ELSE schema

\* result of resolving a fragment: the fragment it becomes, or the
\* exception raised
Resolved(schema, e) == [schema |-> schema, err |-> e]

\* the fragment json.loads(response.content) returns: {"type": "string"}
FetchedSchema == SStr

\* get(schema['$ref']), raise_for_status and json.loads: get is called
\* outside the try block, only RequestException raised inside it is caught
Fetch(outcome) ==
    CASE outcome = "network" -> Resolved(SNone, "ConnectionError")
      [] outcome = "status"  -> Resolved(SEmpty, "ok")
      [] OTHER               -> Resolved(FetchedSchema, "ok")

\* the first exception among the results rs, "ok" when there is none
FirstErr(rs) ==
    IF \A i \in 1..Len(rs) : rs[i].err = "ok" THEN "ok"
    ELSE rs[CHOOSE i \in 1..Len(rs) :
               /\ rs[i].err # "ok"
               /\ \A j \in 1..(i - 1) : rs[j].err = "ok"].err

\* the fragment that is frag with everything else as in schema
FragLike(schema, frag) ==
    IF frag = SchemaDef[schema] THEN schema
    ELSE CHOOSE t \in 0..LastSchema :
            /\ SchemaDef[t] = frag
            /\ HookDef[t] = HookDef[schema]
            /\ RefDef[t] = RefDef[schema]
            /\ EnumDef[t] = EnumDef[schema]

\* position of a key in KeyOrder
KeyIndex(k) == CHOOSE i \in 1..Len(KeyOrder) : KeyOrder[i] = k

\* schema['properties'] = {k: resolved}, rs holding the results in the
\* order of KeyOrder
WithProps(schema, rs) ==
    IF FirstErr(rs) # "ok" THEN Resolved(schema, FirstErr(rs))
    ELSE Resolved(FragLike(schema,
                           [SchemaDef[schema] EXCEPT
                              !.props = [k \in Keys |-> rs[KeyIndex(k)].schema]]),
                  "ok")

\* schema['items'] = resolved, a fragment or a list of fragments
WithItems(schema, rs) ==
    IF FirstErr(rs) # "ok" THEN Resolved(schema, FirstErr(rs))
    ELSE Resolved(FragLike(schema,
                           [SchemaDef[schema] EXCEPT
                              !.items = [i \in 1..Len(rs) |-> rs[i].schema]]),
                  "ok")

RECURSIVE Resolve(_, _)
RECURSIVE ResolveEach(_, _)
\* [self._resolve_refs_in_schema(i) for i in schemas]
ResolveEach(schemas, outcome) ==
    IF schemas = <<>> THEN <<>>
    ELSE <<Resolve(Head(schemas), outcome)>> \o ResolveEach(Tail(schemas), outcome)

\* JSONBase._resolve_refs_in_schema(self, schema), when a fetch meets
\* outcome
Resolve(schema, outcome) ==
    CASE RefDef[schema] = "local" -> Resolved(schema, "KeyError")
      [] RefDef[schema] = "remote" -> Fetch(outcome)
      [] SchemaDef[schema].itemsKind # "absent" ->
           WithItems(schema, ResolveEach(SchemaDef[schema].items, outcome))
      [] \E k \in Keys : SchemaDef[schema].props[k] # SNone ->
           WithProps(schema,
                     ResolveEach([i \in 1..Len(KeyOrder) |->
                                    SchemaDef[schema].props[KeyOrder[i]]],
                                 outcome))
      [] OTHER -> Resolved(schema, "ok")

RECURSIVE ResolveUpTo(_, _)
\* the results of resolving the fragments 0..schema, in this order
ResolveUpTo(schema, outcome) ==
    IF schema < 0 THEN <<>>
    ELSE Append(ResolveUpTo(schema - 1, outcome), Resolve(schema, outcome))

\* what every fragment resolves to, by the outcome of the fetch
ResolveTable ==
    [ok      |-> ResolveUpTo(LastSchema, "ok"),
     status  |-> ResolveUpTo(LastSchema, "status"),
     network |-> ResolveUpTo(LastSchema, "network")]

\* _resolve_refs_in_schema while the remote end answers, as it does
\* wherever the outcome of the fetch is not an input
ResolveNow(schema) == ResolveTable["ok"][schema + 1]

ResolveRefs(schema) == ResolveNow(schema).schema

\* self.schema.get('properties', {}).get(name, None)
PropSchema(schema, name) == SchemaDef[schema].props[name]

---------------------------------------------------------------------------
(* Raw (native) values handed to the library *)
Raw(t, p, kv, el) == [t |-> t, p |-> p, kv |-> kv, el |-> el]
RInt(n) == Raw("int", n, <<>>, <<>>)
RStr(n) == Raw("str", n, <<>>, <<>>)
RFloat(n) == Raw("float", n, <<>>, <<>>)
RBool(b) == Raw("bool", IF b THEN 1 ELSE 0, <<>>, <<>>)
RNull == Raw("null", 0, <<>>, <<>>)
RDict(kv) == Raw("dict", 0, kv, <<>>)
RList(el) == Raw("list", 0, <<>>, el)
RNode(id) == Raw("node", id, <<>>, <<>>)
ROther == Raw("other", 0, <<>>, <<>>)

---------------------------------------------------------------------------
(* Heap nodes *)
EmptyFields == [k \in Keys |-> Absent]

Node(kind, prim, schema, root, parent) ==
    [kind |-> kind, prim |-> prim, fields |-> EmptyFields, items |-> <<>>,
     schema |-> schema, root |-> root, parent |-> parent]

IsNode(slot) == slot > 0
IsContainer(h, slot) == IsNode(slot) /\ h[slot].kind \in {"object", "array"}
IsLeaf(h, slot) == IsNode(slot) /\ h[slot].kind \in {"string", "integer", "number"}

\* children of a node, as a set of slots
ChildSlots(h, n) ==
    IF h[n].kind = "object"
      THEN {h[n].fields[k] : k \in {q \in Keys : h[n].fields[q] # Absent}}
    ELSE IF h[n].kind = "array"
      THEN {h[n].items[i] : i \in 1..Len(h[n].items)}
    ELSE {}

\* Python truth value of a proxy node (None is false)
Truthy(h, n) ==
    /\ n # NoRef
    /\ CASE h[n].kind = "object" -> \E k \in Keys : h[n].fields[k] # Absent
         [] h[n].kind = "array"  -> Len(h[n].items) > 0
         [] OTHER                -> h[n].prim # 0

\* JSONBase.__init__: the schema, root and parent of a node being built
\* with identity self
BaseInit(h, self, schema, root, parent) ==
    [schema |-> IF Truthy(h, root) THEN OrEmpty(schema)
                ELSE ResolveRefs(OrEmpty(schema)),
     root   |-> IF Truthy(h, root) THEN root ELSE self,
     parent |-> IF parent # NoRef THEN parent ELSE self]

\* the exception JSONBase.__init__ raises, if any: a node built without a
\* (true) root resolves the refs of its schema
BaseInitErr(h, schema, root) ==
    IF Truthy(h, root) THEN "ok" ELSE ResolveNow(OrEmpty(schema)).err

\* result of an operation: heap, returned slot, outcome
R(h, slot, e) == [h |-> h, slot |-> slot, err |-> e]

\* JSONArray._get_schema: the exception it raises, if any.  A schema of
\* None has no get(); a positional list indexed below -len raises.
GetSchemaErr(h, self, index) ==
    IF h[self].schema = SNone THEN "AttributeError"
    ELSE LET d == SchemaDef[h[self].schema]
             n == Len(d.items)
         IN  IF d.itemsKind = "list" /\ index < 0 /\ n + index < -n
               THEN "IndexError" ELSE "ok"

GetSchema(h, self, index) ==
    LET d == SchemaDef[h[self].schema]
        n == Len(d.items)
        idx == IF index < 0 THEN n + index ELSE index
    IN  CASE d.itemsKind = "dict" -> d.items[1]
          [] d.itemsKind = "list" ->
               IF n > idx
                 THEN (IF idx >= 0 THEN d.items[idx + 1] ELSE d.items[n + idx + 1])
                 ELSE SNone
          [] OTHER -> SNone

\* the (key, value) pairs iteritems(mapping) yields: the pairs of a native
\* dict, or the stored values of a JSONObject
SlotValue(s) ==
    CASE s > 0 -> RNode(s)
      [] s = PNull -> RNull
      [] s = PTrue -> RBool(TRUE)
      [] OTHER -> RBool(FALSE)

PresentKeys(h, self) == SelectSeq(KeyOrder, LAMBDA k : h[self].fields[k] # Absent)

ItemsOf(h, mapping) ==
    IF mapping.t = "node"
      THEN [i \in 1..Len(PresentKeys(h, mapping.p)) |->
              <<PresentKeys(h, mapping.p)[i],
                SlotValue(h[mapping.p].fields[PresentKeys(h, mapping.p)[i]])>>]
      ELSE mapping.kv

\* the values iterating a native list or a JSONArray yields
ElemsOf(h, iterable) ==
    IF iterable.t = "node"
      THEN [i \in 1..Len(h[iterable.p].items) |-> SlotValue(h[iterable.p].items[i])]
      ELSE iterable.el

---------------------------------------------------------------------------
(* wrap and the constructors.  The mutual recursion of wrap, __new__,      *)
(* __setitem__ and append is run on an explicit stack: a frame is a        *)
(* container whose remaining raw children are still to be wrapped and      *)
(* stored; a child container is pushed as a new frame, filled, and stored  *)
(* in its parent only when its constructor returns.                        *)
(*   frame kind "object": children go through JSONObject.__setitem__       *)
(*   frame kind "array" : children go through JSONArray.append             *)
(*   frame kind "list"  : the list comprehensions of __setitem__,          *)
(*       __setslice__, extend and insert: child k is wrapped against       *)
(*       _get_schema(base + k) and collected in acc                        *)

Frame(self, kind, rest, base, name) ==
    [self |-> self, kind |-> kind, rest |-> rest, base |-> base, name |-> name]

M(h, st, acc, e) == [h |-> h, st |-> st, acc |-> acc, err |-> e]

TopFrame(m) == m.st[Len(m.st)]

\* the raw child the top frame wraps next, and the key it goes under
ChildValue(m) ==
    IF TopFrame(m).kind = "object" THEN Head(TopFrame(m).rest)[2]
    ELSE Head(TopFrame(m).rest)

ChildName(m) ==
    IF TopFrame(m).kind = "object" THEN Head(TopFrame(m).rest)[1] ELSE ""

\* the index handed to _get_schema for the next child
ChildIndex(m) ==
    IF TopFrame(m).kind = "array" THEN Len(m.h[TopFrame(m).self].items)
    ELSE TopFrame(m).base + Len(m.acc)

\* the exception raised while the child's schema is looked up, if any:
\* self.schema['properties'] on None is a TypeError
ChildSchemaErr(m) ==
    IF TopFrame(m).kind = "object"
      THEN (IF m.h[TopFrame(m).self].schema = SNone THEN "TypeError" ELSE "ok")
    ELSE GetSchemaErr(m.h, TopFrame(m).self, ChildIndex(m))

ChildSchema(m) ==
    IF TopFrame(m).kind = "object"
      THEN PropSchema(m.h[TopFrame(m).self].schema, ChildName(m))
    ELSE GetSchema(m.h, TopFrame(m).self, ChildIndex(m))

\* the top frame has dealt with its next child
Advance(st) == [st EXCEPT ![Len(st)].rest = Tail(@)]

\* dict.__setitem__ / list.append / the comprehension's result: the wrapped
\* value is stored for the frame on top of st
Store(h, st, acc, slot, name) ==
    CASE st[Len(st)].kind = "object" ->
           M([h EXCEPT ![st[Len(st)].self].fields[name] = slot], st, acc, "ok")
      [] st[Len(st)].kind = "array" ->
           M([h EXCEPT ![st[Len(st)].self].items = Append(@, slot)], st, acc, "ok")
      [] OTHER -> M(h, st, Append(acc, slot), "ok")

\* the kind of proxy wrap builds for a native value
KindOf(value) ==
    CASE value.t = "dict"  -> "object"
      [] value.t = "list"  -> "array"
      [] value.t = "str"   -> "string"
      [] value.t = "int"   -> "integer"
      [] OTHER             -> "number"

\* the node JSONBase.__init__ sets up for a value wrapped as a child of
\* the container parent
NewNode(h, value, schema, parent) ==
    Node(KindOf(value), value.p,
         BaseInit(h, Len(h) + 1, schema, h[parent].root, parent).schema,
         BaseInit(h, Len(h) + 1, schema, h[parent].root, parent).root,
         BaseInit(h, Len(h) + 1, schema, h[parent].root, parent).parent)

\* wrap without the isinstance(value, bool) test: a boolean is an int to
\* isinstance and becomes a JSONInteger
WrapBoolAsInteger(m, value, schema, name) ==
    CASE value.t = "node" ->
           Store(m.h, Advance(m.st), m.acc, value.p, name)
      [] value.t = "null" ->
           Store(m.h, Advance(m.st), m.acc, PNull, name)
      [] value.t \in {"str", "int", "float", "bool"} ->
           Store(Append(m.h, NewNode(m.h, IF value.t = "bool" THEN RInt(value.p)
                                          ELSE value,
                                     schema, TopFrame(m).self)),
                 Advance(m.st), m.acc, Len(m.h) + 1, name)
      [] value.t = "dict" ->
           M(Append(m.h, NewNode(m.h, value, schema, TopFrame(m).self)),
             Append(Advance(m.st),
                    Frame(Len(m.h) + 1, "object", ItemsOf(m.h, value), 0, name)),
             m.acc, "ok")
      [] value.t = "list" ->
           M(Append(m.h, NewNode(m.h, value, schema, TopFrame(m).self)),
             Append(Advance(m.st),
                    Frame(Len(m.h) + 1, "array", ElemsOf(m.h, value), 0, name)),
             m.acc, "ok")
      [] OTHER -> M(m.h, m.st, m.acc, "TypeError")

\* wrap(value, value_schema, root, parent) for the next child of the top
\* frame, and what the caller does with the result
Wrap(m, value, schema, name) ==
    CASE value.t = "node" ->
           Store(m.h, Advance(m.st), m.acc, value.p, name)
      [] value.t = "bool" ->
           Store(m.h, Advance(m.st), m.acc,
                 IF value.p = 1 THEN PTrue ELSE PFalse, name)
      [] value.t = "null" ->
           Store(m.h, Advance(m.st), m.acc, PNull, name)
      [] value.t \in {"str", "int", "float"} ->
           Store(Append(m.h, NewNode(m.h, value, schema, TopFrame(m).self)),
                 Advance(m.st), m.acc, Len(m.h) + 1, name)
      [] value.t = "dict" ->
           M(Append(m.h, NewNode(m.h, value, schema, TopFrame(m).self)),
             Append(Advance(m.st),
                    Frame(Len(m.h) + 1, "object", ItemsOf(m.h, value), 0, name)),
             m.acc, "ok")
      [] value.t = "list" ->
           M(Append(m.h, NewNode(m.h, value, schema, TopFrame(m).self)),
             Append(Advance(m.st),
                    Frame(Len(m.h) + 1, "array", ElemsOf(m.h, value), 0, name)),
             m.acc, "ok")
      [] OTHER -> M(m.h, m.st, m.acc, "TypeError")

\* a constructor returns: its frame is popped and the new container is
\* stored by the frame below, if there is one
Return(m) ==
    IF Len(m.st) = 1 THEN M(m.h, <<>>, m.acc, "ok")
    ELSE Store(m.h, SubSeq(m.st, 1, Len(m.st) - 1), m.acc,
               TopFrame(m).self, TopFrame(m).name)

\* the exception JSONBase.__init__ raises when the next child is a value
\* wrap builds a proxy for
ChildInitErr(m) ==
    IF ChildValue(m).t \in {"dict", "list", "str", "int", "float"}
      THEN BaseInitErr(m.h, ChildSchema(m), m.h[TopFrame(m).self].root)
    ELSE "ok"

\* the setter self.schema['properties'][name]['setter'] names, for a store
\* through JSONObject.__setitem__
SetterOf(m) ==
    IF TopFrame(m).kind = "object" THEN HookDef[ChildSchema(m)].setter ELSE "none"

\* setter(self, name, value): helpers.raise_error raises and stores nothing
CallSetter(m, setter) == M(m.h, m.st, m.acc, "NotImplementedError")

BuildStep(m) ==
    IF TopFrame(m).rest = <<>> THEN Return(m)
    ELSE IF ChildSchemaErr(m) # "ok" THEN M(m.h, m.st, m.acc, ChildSchemaErr(m))
    ELSE IF SetterOf(m) # "none" THEN CallSetter(m, SetterOf(m))
    ELSE IF ChildInitErr(m) # "ok" THEN M(m.h, m.st, m.acc, ChildInitErr(m))
    ELSE Wrap(m, ChildValue(m), ChildSchema(m), ChildName(m))

RECURSIVE Build(_)
Build(m) == IF m.st = <<>> \/ m.err # "ok" THEN m ELSE Build(BuildStep(m))

\* result of an operation on node self, from the final state of a run
Done(m, self) == R(m.h, self, m.err)

\* JSONString / JSONInteger / JSONNumber.__new__ called without root and
\* parent
LeafNew(h, kind, prim, schema) ==
    R(Append(h, Node(kind, prim,
                     BaseInit(h, Len(h) + 1, schema, NoRef, NoRef).schema,
                     Len(h) + 1, Len(h) + 1)),
      Len(h) + 1, BaseInitErr(h, schema, NoRef))

\* JSONObject.__new__(cls, mapping, schema) called without root and parent
ObjectNew(h, mapping, schema) ==
    Done(Build(M(Append(h, Node("object", 0,
                                BaseInit(h, Len(h) + 1, schema, NoRef, NoRef).schema,
                                Len(h) + 1, Len(h) + 1)),
                 <<Frame(Len(h) + 1, "object", ItemsOf(h, mapping), 0, "")>>,
                 <<>>, BaseInitErr(h, schema, NoRef))),
         Len(h) + 1)

\* JSONArray.__new__(cls, iterable, schema) called without root and parent
ArrayNew(h, iterable, schema) ==
    Done(Build(M(Append(h, Node("array", 0,
                                BaseInit(h, Len(h) + 1, schema, NoRef, NoRef).schema,
                                Len(h) + 1, Len(h) + 1)),
                 <<Frame(Len(h) + 1, "array", ElemsOf(h, iterable), 0, "")>>,
                 <<>>, BaseInitErr(h, schema, NoRef))),
         Len(h) + 1)

\* JSONObject.__setitem__(self, name, value)
ObjSetItem(h, self, name, value) ==
    Done(Build(M(h, <<Frame(self, "object", << <<name, value>> >>, 0, "")>>,
                 <<>>, "ok")),
         self)

\* JSONArray.append(self, obj)
ArrAppend(h, self, obj) ==
    Done(Build(M(h, <<Frame(self, "array", <<obj>>, 0, "")>>, <<>>, "ok")), self)

\* [wrap(x, self._get_schema(base + index), self._root, lambda: self)
\*  for index, x in enumerate(vals)]: the final state holds the list in acc
WrapAll(h, self, vals, base) ==
    Build(M(h, <<Frame(self, "list", vals, base, "")>>, <<>>, "ok"))

---------------------------------------------------------------------------
(* Schema reassignment: _set_schema recurses through the children; the     *)
(* recursion is run on a stack of pending calls [slot, schema].  A pending *)
(* call carries the exception raised before the call is made: evaluating   *)
(* self[index] (err) or, after the attribute lookup, its argument (serr).  *)

Call(slot, schema, e, se) == [slot |-> slot, schema |-> schema, err |-> e, serr |-> se]

\* the child slots of a container in iteration order
ChildSeq(h, n) ==
    IF h[n].kind = "object"
      THEN [i \in 1..Len(PresentKeys(h, n)) |-> h[n].fields[PresentKeys(h, n)[i]]]
    ELSE h[n].items

\* the calls JSONObject._set_schema / JSONArray._set_schema make on the
\* children of node n, whose schema has just been set to schema
ChildCalls(h, n, schema) ==
    IF h[n].kind = "object"
      THEN [i \in 1..Len(PresentKeys(h, n)) |->
              Call(h[n].fields[PresentKeys(h, n)[i]],
                   PropSchema(schema, PresentKeys(h, n)[i]), "ok",
                   IF schema = SNone THEN "AttributeError" ELSE "ok")]
    ELSE IF h[n].kind = "array"
      THEN [i \in 1..Len(h[n].items) |->
              Call(h[n].items[i],
                   GetSchema([h EXCEPT ![n].schema = schema], n, i - 1), "ok",
                   IF schema = SNone THEN "AttributeError" ELSE "ok")]
    ELSE <<>>

\* one pending value._set_schema(schema) is made; None and booleans have
\* no such attribute
SetSchema(h, st) ==
    IF Head(st).err # "ok" THEN M(h, st, <<>>, Head(st).err)
    ELSE IF ~IsNode(Head(st).slot) THEN M(h, st, <<>>, "AttributeError")
    ELSE IF Head(st).serr # "ok" THEN M(h, st, <<>>, Head(st).serr)
    ELSE M([h EXCEPT ![Head(st).slot].schema = Head(st).schema],
           ChildCalls(h, Head(st).slot, Head(st).schema) \o Tail(st),
           <<>>, "ok")

RECURSIVE SetSchemaRun(_)
SetSchemaRun(m) ==
    IF m.st = <<>> \/ m.err # "ok" THEN m
    ELSE SetSchemaRun(SetSchema(m.h, m.st))

\* the calls of the while loop of JSONArray._recompute_schemas, index
\* running from start to len(self) - 1
RecomputeCalls(h, self, start) ==
    [k \in 1..(IF Len(h[self].items) > start THEN Len(h[self].items) - start ELSE 0) |->
       IF start + k - 1 < 0 - Len(h[self].items)
         THEN Call(NoRef, SNone, "IndexError", "ok")
       ELSE Call(h[self].items[(IF start + k - 1 < 0
                                  THEN Len(h[self].items) + start + k - 1
                                  ELSE start + k - 1) + 1],
                 GetSchema(h, self, start + k - 1), "ok",
                 GetSchemaErr(h, self, start + k - 1))]

\* JSONArray._recompute_schemas(self, index)
RecomputeSchemas(h, self, index) ==
    Done(SetSchemaRun(M(h, RecomputeCalls(h, self,
                                          IF index < 0 THEN Len(h[self].items) + index
                                          ELSE index),
                        <<>>, "ok")),
         self)

---------------------------------------------------------------------------
(* Array and object operations *)
Min(a, b) == IF a < b THEN a ELSE b
Max(a, b) == IF a > b THEN a ELSE b

\* a 0-based Python index, negative ones counted from the end
Position(length, index) == IF index < 0 THEN length + index ELSE index

\* list.__setitem__(self, index, wrapped) once the value is wrapped (m)
SetItemStore(m, self, index) ==
    IF m.err # "ok" THEN Done(m, self)
    ELSE IF Position(Len(m.h[self].items), index) < 0
            \/ Position(Len(m.h[self].items), index) >= Len(m.h[self].items)
      THEN R(m.h, self, "IndexError")
    ELSE R([m.h EXCEPT ![self].items[Position(Len(m.h[self].items), index) + 1] =
                                                                      m.acc[1]],
           self, "ok")

\* JSONArray.__setitem__(self, index, value)
ArrSetItem(h, self, index, value) ==
    SetItemStore(WrapAll(h, self, <<value>>, index), self, index)

\* list.__setslice__(self, i, j, new) on a sequence
ListSetSlice(items, i, j, new) ==
    SubSeq(items, 1, Max(0, Min(i, Len(items))))
    \o new
    \o SubSeq(items, Max(Max(0, Min(i, Len(items))), Min(j, Len(items))) + 1,
              Len(items))

\* list.__setslice__ and _recompute_schemas once the values are wrapped (m)
SetSliceStore(m, self, i, j) ==
    IF m.err # "ok" THEN Done(m, self)
    ELSE RecomputeSchemas([m.h EXCEPT ![self].items = ListSetSlice(@, i, j, m.acc)],
                          self, i + Len(m.acc))

\* JSONArray.__setslice__(self, i, j, obj) as the interpreter calls it
ArrSetSliceCall(h, self, i, j, obj) ==
    SetSliceStore(WrapAll(h, self, ElemsOf(h, obj), i), self, i, j)

\* self[i:j] = obj: Python 2 adds len(self) once to a negative bound
\* before it calls __setslice__
ArrSetSlice(h, self, i, j, obj) ==
    ArrSetSliceCall(h, self,
                    IF i < 0 THEN i + Len(h[self].items) ELSE i,
                    IF j < 0 THEN j + Len(h[self].items) ELSE j, obj)

\* list.extend(self, wrapped) once the values are wrapped (m)
ExtendStore(m, self) ==
    IF m.err # "ok" THEN Done(m, self)
    ELSE R([m.h EXCEPT ![self].items = @ \o m.acc], self, "ok")

\* JSONArray.extend(self, obj)
ArrExtend(h, self, obj) == ExtendStore(WrapAll(h, self, ElemsOf(h, obj), 0), self)

\* the position JSONArray.insert stores at
InsertIndex(length, index) ==
    Position(length, Max(Min(length, index), 0 - length))

\* list.insert and _recompute_schemas once the value is wrapped (m)
InsertStore(m, self, idx) ==
    IF m.err # "ok" THEN Done(m, self)
    ELSE RecomputeSchemas(
           [m.h EXCEPT ![self].items =
               SubSeq(@, 1, idx) \o m.acc \o SubSeq(@, idx + 1, Len(@))],
           self, idx)

\* JSONArray.insert(self, index, obj)
ArrInsert(h, self, index, obj) ==
    InsertStore(WrapAll(h, self, <<obj>>, InsertIndex(Len(h[self].items), index)),
                self, InsertIndex(Len(h[self].items), index))

\* list.pop(self, index), which JSONArray inherits
ArrPop(h, self, index) ==
    IF Position(Len(h[self].items), index) < 0
       \/ Position(Len(h[self].items), index) >= Len(h[self].items)
      THEN R(h, self, "IndexError")
    ELSE R([h EXCEPT ![self].items =
               SubSeq(@, 1, Position(Len(@), index))
               \o SubSeq(@, Position(Len(@), index) + 2, Len(@))],
           self, "ok")

\* dict.__delitem__(self, name), which JSONObject inherits
ObjDelItem(h, self, name) ==
    IF h[self].fields[name] = Absent THEN R(h, self, "KeyError")
    ELSE R([h EXCEPT ![self].fields[name] = Absent], self, "ok")

---------------------------------------------------------------------------
(* Validation *)
RECURSIVE Conforms(_, _, _)
RECURSIVE ValidateExternal(_, _)

\* Draft4Validator.is_type with the `types` table of JSONBase.validate
TypeOk(h, slot, type) ==
    CASE type = "any"     -> TRUE
      [] type = "object"  -> IsNode(slot) /\ h[slot].kind = "object"
      [] type = "array"   -> IsNode(slot) /\ h[slot].kind = "array"
      [] type = "string"  -> IsNode(slot) /\ h[slot].kind = "string"
      [] type = "integer" -> IsNode(slot) /\ h[slot].kind = "integer"
      [] type = "number"  -> IsNode(slot) /\ h[slot].kind \in {"integer", "number"}
      [] type = "boolean" -> slot \in {PTrue, PFalse}
      [] type = "null"    -> slot = PNull
      [] OTHER            -> FALSE

\* Draft4Validator(schema).validate(instance): the keywords type,
\* properties and items (uniform or positional)
Conforms(h, slot, schema) ==
    LET d == SchemaDef[schema]
    IN  /\ TypeOk(h, slot, d.type)
        /\ (IsNode(slot) /\ h[slot].kind = "object") =>
              \A k \in Keys :
                 (h[slot].fields[k] # Absent /\ d.props[k] # SNone) =>
                    Conforms(h, h[slot].fields[k], d.props[k])
        /\ (IsNode(slot) /\ h[slot].kind = "array" /\ d.itemsKind = "dict") =>
              \A i \in 1..Len(h[slot].items) :
                 Conforms(h, h[slot].items[i], d.items[1])
        /\ (IsNode(slot) /\ h[slot].kind = "array" /\ d.itemsKind = "list") =>
              \A i \in 1..Min(Len(h[slot].items), Len(d.items)) :
                 Conforms(h, h[slot].items[i], d.items[i])

\* the text 'type', the one key of a fragment that the values of the
\* documents can be equal to
TypeWord == 4

\* `self in enum`, enum being the fragment frag, a dict: self is one of
\* its keys
InFragment(h, n, frag) ==
    /\ h[n].kind = "string"
    /\ h[n].prim = TypeWord
    /\ SchemaDef[frag].type \notin {"none", "any"}

\* the second block of JSONBase._validate_external: a KeyError (no
\* 'enumSource', no 'properties' in the schema of the root, no such
\* property) is passed over; JSONObject and JSONArray cannot be hashed
EnumSource(h, n) ==
    CASE EnumDef[h[n].schema] = "" -> "ok"
      [] h[h[n].root].schema = SNone -> "TypeError"
      [] SchemaDef[h[h[n].root].schema].props[EnumDef[h[n].schema]] = SNone -> "ok"
      [] h[n].kind \in {"object", "array"} -> "TypeError"
      [] InFragment(h, n, SchemaDef[h[h[n].root].schema].props[EnumDef[h[n].schema]])
           -> "ok"
      [] OTHER -> "ValidationError"

\* JSONBase._validate_external on the node itself: self.schema['validation']
\* on a schema of None is a TypeError; the fragments declare no
\* 'validation' hook
ExternalSelf(h, n) == IF h[n].schema = SNone THEN "TypeError" ELSE EnumSource(h, n)

\* value._validate_external() for the values in slots, one after the
\* other, each recursing into its children as JSONObject and
\* JSONArray._validate_external do: the first exception raised
ValidateExternal(h, slots) ==
    IF slots = <<>> THEN "ok"
    ELSE IF ~IsNode(Head(slots)) THEN "AttributeError"
    ELSE IF ExternalSelf(h, Head(slots)) # "ok" THEN ExternalSelf(h, Head(slots))
    ELSE ValidateExternal(h, ChildSeq(h, Head(slots)) \o Tail(slots))

\* JSONBase.validate(self): the outcome
Validate(h, n) ==
    IF ValidateExternal(h, <<n>>) # "ok" THEN ValidateExternal(h, <<n>>)
    ELSE IF Conforms(h, n, h[n].schema) THEN "ok" ELSE "ValidationError"

---------------------------------------------------------------------------
(* Observation of a tree *)
RECURSIVE ReachFrom(_, _)
ReachFrom(h, S) ==
    LET T == S \cup {c \in UNION {ChildSlots(h, m) : m \in S} : c > 0}
    IN  IF T = S THEN S ELSE ReachFrom(h, T)

\* the proxy nodes reachable from node n, n included
Reach(h, n) == ReachFrom(h, {n})

IndexName(i) == ToString(i)

RECURSIVE DeepVal(_, _, _)
\* what reading the value in a slot yields at every depth: the set of
\* <<path, type, primitive>> of the value and of all its descendants
DeepVal(h, slot, path) ==
    IF slot = PNull THEN {<<path, "null", 0>>}
    ELSE IF slot = PTrue THEN {<<path, "bool", 1>>}
    ELSE IF slot = PFalse THEN {<<path, "bool", 0>>}
    ELSE {<<path, h[slot].kind, h[slot].prim>>}
         \cup UNION {DeepVal(h, h[slot].fields[k], Append(path, k)) :
                       k \in {q \in Keys : h[slot].fields[q] # Absent}}
         \cup UNION {DeepVal(h, h[slot].items[i], Append(path, IndexName(i - 1))) :
                       i \in 1..Len(h[slot].items)}

Content(h, n) == DeepVal(h, n, <<>>)

RECURSIVE Unwrap(_, _)
\* the native value a stored slot compares equal to: dict.__eq__ and
\* list.__eq__ compare the stored members, the leaves compare as the
\* str, int or float they are
Unwrap(h, slot) ==
    CASE slot = PNull  -> RNull
      [] slot = PTrue  -> RBool(TRUE)
      [] slot = PFalse -> RBool(FALSE)
      [] h[slot].kind = "object" ->
           RDict([i \in 1..Len(PresentKeys(h, slot)) |->
                    <<PresentKeys(h, slot)[i],
                      Unwrap(h, h[slot].fields[PresentKeys(h, slot)[i]])>>])
      [] h[slot].kind = "array" ->
           RList([i \in 1..Len(h[slot].items) |-> Unwrap(h, h[slot].items[i])])
      [] h[slot].kind = "string"  -> RStr(h[slot].prim)
      [] h[slot].kind = "integer" -> RInt(h[slot].prim)
      [] OTHER -> RFloat(h[slot].prim)

---------------------------------------------------------------------------
(* Reading an object: derived properties *)
\* what a read returns: the stored slot ("stored"), the text a getter
\* returned ("getter") or the text a template rendered ("template"), text
\* holding the rendered value; or the exception raised
Got(kind, slot, text, e) == [kind |-> kind, slot |-> slot, text |-> text, err |-> e]

\* helpers.author(field): a constant
Smith == 3
Getter(getter, h, self) == Got("getter", NoRef, Smith, "ok")

\* template.render({k: ...}): the text is a function of the watched value
\* read, a stored value (by content) or a computed text
Render(h, g) ==
    IF g.err # "ok" THEN Got("none", NoRef, 0, g.err)
    ELSE IF g.kind = "stored"
      THEN Got("template", NoRef, <<"stored", Content(h, g.slot)>>, "ok")
    ELSE Got("template", NoRef, <<g.kind, g.text>>, "ok")

RECURSIVE ObjGetItem(_, _, _)
\* __getitem__ looking at the stored value first and at the hooks only
\* for a key that is not stored
ObjGetItemStoredFirst(h, self, name) ==
    IF h[self].schema = SNone THEN Got("none", NoRef, 0, "TypeError")
    ELSE IF h[self].fields[name] # Absent
      THEN Got("stored", h[self].fields[name], 0, "ok")
    ELSE IF HookDef[PropSchema(h[self].schema, name)].getter # "none"
      THEN Getter(HookDef[PropSchema(h[self].schema, name)].getter, h, self)
    ELSE IF /\ HookDef[PropSchema(h[self].schema, name)].template
            /\ HookDef[PropSchema(h[self].schema, name)].watch # ""
      THEN Render(h, ObjGetItem(h, self,
                                HookDef[PropSchema(h[self].schema, name)].watch))
    ELSE Got("none", NoRef, 0, "KeyError")

\* JSONObject.__getitem__(self, name); _get_from_path reads the watched
\* key through self[key]
ObjGetItem(h, self, name) ==
    IF h[self].schema = SNone THEN Got("none", NoRef, 0, "TypeError")
    ELSE IF HookDef[PropSchema(h[self].schema, name)].getter # "none"
      THEN Getter(HookDef[PropSchema(h[self].schema, name)].getter, h, self)
    ELSE IF /\ HookDef[PropSchema(h[self].schema, name)].template
            /\ HookDef[PropSchema(h[self].schema, name)].watch # ""
      THEN Render(h, ObjGetItem(h, self,
                                HookDef[PropSchema(h[self].schema, name)].watch))
    ELSE IF h[self].fields[name] = Absent THEN Got("none", NoRef, 0, "KeyError")
    ELSE Got("stored", h[self].fields[name], 0, "ok")

\* the result of JSONObject.get once self[value] is evaluated (g): a
\* KeyError becomes the default, None
GetDefault(g) == IF g.err = "KeyError" THEN Got("default", PNull, 0, "ok") ELSE g

\* JSONObject.get(self, value)
ObjGet(h, self, name) == GetDefault(ObjGetItem(h, self, name))

---------------------------------------------------------------------------
(* The transactional context: JSONBase.validation / JSONValidation *)

\* JSONValidation.__init__: self._copy = json.__class__(json, json.schema)
CloneOf(h, json) ==
    CASE h[json].kind = "object" -> ObjectNew(h, RNode(json), h[json].schema)
      [] h[json].kind = "array" -> ArrayNew(h, RNode(json), h[json].schema)
      [] OTHER -> LeafNew(h, h[json].kind, h[json].prim, h[json].schema)

SysMaxInt == 2147483647

\* json._update(copy): JSONObject._update is dict.__init__(self, other),
\* JSONArray._update is self[:] = copy, the leaves raise RuntimeError
Update(h, json, copy) ==
    CASE h[json].kind = "object" ->
           R([h EXCEPT ![json].fields =
                 [k \in Keys |-> IF h[copy].fields[k] # Absent
                                   THEN h[copy].fields[k] ELSE @[k]]],
             json, "ok")
      [] h[json].kind = "array" -> ArrSetSlice(h, json, 0, SysMaxInt, RNode(copy))
      [] OTHER -> R(h, json, "RuntimeError")

\* what __exit__ reports: the heap, the exception that leaves the with
\* statement, and which of its two steps ran
Exited(h, e, validated, updated) ==
    [h |-> h, err |-> e, validated |-> validated, updated |-> updated]

\* self._json._update(self._copy) was called with result u
Committed(u) == Exited(u.h, u.err, TRUE, TRUE)

\* self._copy.validate() ended with outcome v; then _update
ExitChecked(h, json, copy, v) ==
    IF v # "ok" THEN Exited(h, v, TRUE, FALSE)
    ELSE Committed(Update(h, json, copy))

\* __exit__ without the `if not type` test: validates and commits even
\* when the block raised
ExitResultIgnoringType(h, json, copy, raised) ==
    ExitChecked(h, json, copy, Validate(h, copy))

\* JSONValidation.__exit__(self, type, value, traceback); raised says
\* whether the block raised
ExitResult(h, json, copy, raised) ==
    IF raised THEN Exited(h, "BlockError", FALSE, FALSE)
    ELSE ExitChecked(h, json, copy, Validate(h, copy))

---------------------------------------------------------------------------
(* Inputs *)
MaxIdx == 2
Indexes == (0 - MaxIdx)..MaxIdx

Ellis == 1
Cranmer == 2

\* documents the object specification starts from
Docs == {RDict(<< <<"authors", RList(<<RDict(<< <<"family_name", RStr(Ellis)>> >>)>>)>> >>),
         RDict(<<>>)}

\* values assigned into objects
ObjVals == {RInt(7), RStr(Cranmer), RBool(TRUE),
            RList(<<RDict(<< <<"family_name", RStr(Cranmer)>> >>)>>)}

\* arrays the array specification starts from, and their schemas
Lists == {RList(<<>>), RList(<<RInt(1)>>), RList(<<RInt(1), RStr(Ellis)>>)}
ListSchemas == {SAddr, SList}

\* values stored into arrays, and lists of them
ArrVals == {RInt(7), RStr(Cranmer), RBool(TRUE)}
ArrLists == {<<>>, <<RStr(Cranmer)>>, <<RStr(Cranmer), RInt(7)>>}

---------------------------------------------------------------------------
(* State machine *)
NoTx == [active |-> FALSE, json |-> NoRef, copy |-> NoRef]

Op(op, self, index, n, vals) ==
    [op |-> op, self |-> self, index |-> index, n |-> n, vals |-> vals,
     raised |-> FALSE, validated |-> FALSE, updated |-> FALSE]

\* the nodes the caller can reach: through the clone inside a block,
\* through the document otherwise
Targets == IF tx.active THEN Reach(heap, tx.copy) ELSE Reach(heap, top)
Objects == {n \in Targets : heap[n].kind = "object"}
Arrays == {n \in Targets : heap[n].kind = "array"}

\* an operation with result r took place
Apply(r, l) ==
    /\ ops > 0
    /\ Len(r.h) <= MaxNodes
    /\ heap' = r.h
    /\ err' = r.err
    /\ last' = l
    /\ ops' = ops - 1
    /\ UNCHANGED <<top, tx, pre>>

\* JSONObject(doc, schema)
Init ==
    /\ \E doc \in Docs : heap = ObjectNew(<<>>, doc, SDoc).h
    /\ top = 1
    /\ tx = NoTx
    /\ pre = {}
    /\ last = Op("init", 1, 0, 0, <<>>)
    /\ err = "ok"
    /\ ops = MaxOps

\* JSONArray(list, schema)
InitArr ==
    /\ \E l \in Lists, s \in ListSchemas :
          heap = ArrayNew(<<>>, l, s).h
    /\ top = 1
    /\ tx = NoTx
    /\ pre = {}
    /\ last = Op("init", 1, 0, 0, <<>>)
    /\ err = "ok"
    /\ ops = MaxArrOps

\* node[name] = value
ObjSet ==
    \E self \in Objects, name \in Keys, value \in ObjVals :
       Apply(ObjSetItem(heap, self, name, value),
             Op("set", self, 0, 0, <<value>>))

\* del node[name]
ObjDel ==
    \E self \in Objects, name \in Keys :
       Apply(ObjDelItem(heap, self, name), Op("del", self, 0, 0, <<>>))

\* node[index] = value
ArrSet ==
    \E self \in Arrays, index \in Indexes, value \in ArrVals :
       Apply(ArrSetItem(heap, self, index, value),
             Op("set", self, index, Len(heap[self].items), <<value>>))

\* node.append(value)
Append1 ==
    \E self \in Arrays, value \in ArrVals :
       Apply(ArrAppend(heap, self, value),
             Op("append", self, 0, Len(heap[self].items), <<value>>))

\* node.extend(values)
Extend ==
    \E self \in Arrays, values \in ArrLists :
       Apply(ArrExtend(heap, self, RList(values)),
             Op("extend", self, 0, Len(heap[self].items), values))

\* node.insert(index, value)
Insert ==
    \E self \in Arrays, index \in Indexes, value \in ArrVals :
       Apply(ArrInsert(heap, self, index, value),
             Op("insert", self, index, Len(heap[self].items), <<value>>))

\* node[i:j] = values
SetSlice ==
    \E self \in Arrays, i \in Indexes, j \in Indexes, values \in ArrLists :
       Apply(ArrSetSlice(heap, self, i, j, RList(values)),
             [stop |-> j] @@ Op("setslice", self, i, Len(heap[self].items), values))

\* node.pop(index)
Pop ==
    \E self \in Arrays, index \in Indexes :
       Apply(ArrPop(heap, self, index),
             Op("pop", self, index, Len(heap[self].items), <<>>))

\* the context manager was built with result r for node json
Entered(json, r) ==
    /\ ~tx.active
    /\ ops > 0
    /\ Len(r.h) <= MaxNodes
    /\ heap' = r.h
    /\ tx' = [active |-> TRUE, json |-> json, copy |-> r.slot]
    /\ pre' = Content(heap, json)
    /\ last' = Op("enter", json, 0, 0, <<>>)
    /\ err' = r.err
    /\ ops' = ops - 1
    /\ UNCHANGED top

\* with node.validation as d: the property builds the JSONValidation
\* object and __enter__ hands out its copy
Enter == \E json \in Reach(heap, top) : Entered(json, CloneOf(heap, json))

\* __exit__ ended with result x
Left(raised, x) ==
    /\ heap' = x.h
    /\ tx' = [tx EXCEPT !.active = FALSE]
    /\ last' = [Op("exit", tx.json, 0, 0, <<>>) EXCEPT
                  !.raised = raised, !.validated = x.validated,
                  !.updated = x.updated]
    /\ err' = x.err
    /\ UNCHANGED <<top, pre, ops>>

\* the block is left, normally or because it raised: __exit__
Exit ==
    /\ tx.active
    /\ \E raised \in BOOLEAN :
          Left(raised, ExitResult(heap, tx.json, tx.copy, raised))

Next == ObjSet \/ ObjDel \/ Append1 \/ Enter \/ Exit

Spec == Init /\ [][Next]_vars

NextArr == ArrSet \/ Append1 \/ Extend \/ Insert \/ SetSlice \/ Pop

SpecArr == InitArr /\ [][NextArr]_vars

---------------------------------------------------------------------------
(* Wrapping: values of every runtime type are stored into the containers   *)
(* of a document that starts empty                                         *)

\* the proxies that can be stored into container self without making the
\* document cyclic
Storable(self) == {q \in Reach(heap, top) : self \notin Reach(heap, q)}

Three == 3

\* the values handed to wrap: one of each runtime type, nested ones, a
\* value of a type JSON does not know (alone and inside a mapping), and
\* proxies that exist already
WrapVals(self) ==
    {RInt(7), RStr(Cranmer), RFloat(Three), RBool(TRUE), RBool(FALSE), RNull,
     ROther,
     RDict(<< <<"family_name", RStr(Ellis)>> >>),
     RList(<<RInt(7), RBool(TRUE)>>),
     RDict(<< <<"family_name", ROther>> >>)}
    \cup {RNode(q) : q \in Storable(self)}

\* the record of a store through wrap: n is the number of proxies that
\* existed before the call
WrapOp(op, self, name, value) ==
    [op |-> op, self |-> self, name |-> name, index |-> Len(heap[self].items),
     n |-> Len(heap), vals |-> <<value>>,
     raised |-> FALSE, validated |-> FALSE, updated |-> FALSE]

\* a store through wrap with result r took place
Wrapped(r, l) ==
    /\ ops > 0
    /\ Len(r.h) <= MaxNodes
    /\ heap' = r.h
    /\ err' = r.err
    /\ last' = l
    /\ pre' = Content(heap, l.self)
    /\ ops' = ops - 1
    /\ UNCHANGED <<top, tx>>

\* JSONObject({}) or JSONArray([])
InitWrap ==
    /\ heap \in {ObjectNew(<<>>, RDict(<<>>), SEmpty).h,
                 ArrayNew(<<>>, RList(<<>>), SEmpty).h}
    /\ top = 1
    /\ tx = NoTx
    /\ pre = {}
    /\ last = Op("init", 1, 0, 0, <<>>)
    /\ err = "ok"
    /\ ops = MaxWrapOps

\* node[name] = value, for a value of any type
WrapSet ==
    \E self \in Objects, name \in Keys :
       \E value \in WrapVals(self) :
          Wrapped(ObjSetItem(heap, self, name, value),
                  WrapOp("wrapset", self, name, value))

\* node.append(value), for a value of any type
WrapAppend ==
    \E self \in Arrays :
       \E value \in WrapVals(self) :
          Wrapped(ArrAppend(heap, self, value),
                  WrapOp("wrapappend", self, "", value))

NextWrap == WrapSet \/ WrapAppend

SpecWrap == InitWrap /\ [][NextWrap]_vars

---------------------------------------------------------------------------
(* Construction: a proxy is built from a native document and a schema      *)

\* the members documents are made of; NoValue leaves the key out
NoValue == Raw("absent", 0, <<>>, <<>>)

RoundLeaves == {RStr(Ellis), RInt(7), RFloat(Three), RBool(TRUE), RNull}

RoundVals ==
    RoundLeaves
    \cup {RList(<<RStr(Ellis), RBool(FALSE)>>),
          RDict(<< <<"family_name", RStr(Cranmer)>> >>)}

\* the native mapping with the given members
DictOf(a, f) ==
    RDict(SelectSeq(<< <<"authors", a>>, <<"family_name", f>> >>,
                    LAMBDA kv : kv[2] # NoValue))

\* the documents and the schemas they are built under
RoundDocs ==
    {DictOf(a, f) : a \in RoundVals \cup {NoValue}, f \in RoundVals \cup {NoValue}}
    \cup {RList(<<>>)}
    \cup {RList(<<x>>) : x \in RoundLeaves}
    \cup {RList(<<x, y>>) : x \in RoundLeaves, y \in RoundLeaves}

RoundSchemas(v) ==
    IF v.t = "dict" THEN {SEmpty, SDoc, SCalcDoc, SGuardDoc, STemplDoc, SBothDoc}
    ELSE {SEmpty, SAddr, SList}

\* the constructor returned or raised, with result r
Constructed(v, schema, r) ==
    /\ ops > 0
    /\ Len(r.h) <= MaxNodes
    /\ heap' = r.h
    /\ top' = r.slot
    /\ err' = r.err
    /\ last' = [op |-> "new", self |-> r.slot, schema |-> schema, vals |-> <<v>>]
    /\ ops' = ops - 1
    /\ UNCHANGED <<tx, pre>>

\* nothing is built yet
InitRound ==
    /\ heap = <<>>
    /\ top = NoRef
    /\ tx = NoTx
    /\ pre = {}
    /\ last = Op("init", NoRef, 0, 0, <<>>)
    /\ err = "ok"
    /\ ops = 1

\* JSONObject(v, schema)
NewObject ==
    \E v \in {d \in RoundDocs : d.t = "dict"} :
       \E schema \in RoundSchemas(v) :
          Constructed(v, schema, ObjectNew(heap, v, schema))

\* JSONArray(v, schema)
NewArray ==
    \E v \in {d \in RoundDocs : d.t = "list"} :
       \E schema \in RoundSchemas(v) :
          Constructed(v, schema, ArrayNew(heap, v, schema))

NextRound == NewObject \/ NewArray

SpecRound == InitRound /\ [][NextRound]_vars

---------------------------------------------------------------------------
(* Derived properties: documents whose "authors" property is computed by   *)
(* a getter or rendered from "family_name" are written and read            *)

DerivedDocs ==
    {RDict(<<>>),
     RDict(<< <<"family_name", RStr(Ellis)>> >>),
     RDict(<< <<"authors", RStr(Cranmer)>>, <<"family_name", RStr(Ellis)>> >>)}

DerivedSchemas == {SCalcDoc, SGuardDoc, STemplDoc, SBothDoc}

DerivedVals == {RStr(Cranmer), RInt(7), RBool(TRUE), ROther}

\* JSONObject(doc, schema), for the documents the constructor accepts
InitDerived ==
    /\ \E doc \in DerivedDocs, schema \in DerivedSchemas :
          /\ ObjectNew(<<>>, doc, schema).err = "ok"
          /\ heap = ObjectNew(<<>>, doc, schema).h
    /\ top = 1
    /\ tx = NoTx
    /\ pre = {}
    /\ last = Op("init", 1, 0, 0, <<>>)
    /\ err = "ok"
    /\ ops = MaxDerivedOps

\* data[name] = value
DerivedSet ==
    \E name \in Keys, value \in DerivedVals :
       Wrapped(ObjSetItem(heap, top, name, value),
               WrapOp("dset", top, name, value))

\* del data[name]
DerivedDel ==
    \E name \in Keys :
       Wrapped(ObjDelItem(heap, top, name), WrapOp("ddel", top, name, RNull))

NextDerived == DerivedSet \/ DerivedDel

SpecDerived == InitDerived /\ [][NextDerived]_vars

---------------------------------------------------------------------------
(* References: documents are built under schemas that hold a '$ref',       *)
(* while the remote end answers, answers with an error status, or cannot   *)
(* be reached                                                              *)

FetchOutcomes == {"ok", "status", "network"}

\* schemas whose family_name property, or the schema itself, is a remote
\* '$ref' (SExt, SRemote) or an unresolvable local one (SBad), and one
\* without reference
RefSchemas == {SExt, SRemote, SBad, SAuthor}

RefDocs ==
    {DictOf(a, f) : a \in {NoValue, RInt(7), RBool(TRUE)},
                    f \in {NoValue, RStr(Ellis), RInt(7), RNull}}

\* JSONObject.__new__(cls, mapping, schema) while a fetch meets outcome:
\* JSONBase.__init__ resolves the refs of the schema, or raises, before
\* the members are stored under the resolved schema
ObjectNewFetching(h, mapping, schema, outcome) ==
    IF ResolveTable[outcome][OrEmpty(schema) + 1].err # "ok"
      THEN R(Append(h, Node("object", 0, OrEmpty(schema), Len(h) + 1, Len(h) + 1)),
             Len(h) + 1, ResolveTable[outcome][OrEmpty(schema) + 1].err)
    ELSE ObjectNew(h, mapping, ResolveTable[outcome][OrEmpty(schema) + 1].schema)

\* nothing is built yet
InitRef ==
    /\ heap = <<>>
    /\ top = NoRef
    /\ tx = NoTx
    /\ pre = {}
    /\ last = Op("init", NoRef, 0, 0, <<>>)
    /\ err = "ok"
    /\ ops = 1

\* the constructor returned or raised, with result r
RefConstructed(v, schema, outcome, r) ==
    /\ ops > 0
    /\ Len(r.h) <= MaxNodes
    /\ heap' = r.h
    /\ top' = r.slot
    /\ err' = r.err
    /\ last' = [op |-> "newref", self |-> r.slot, schema |-> schema,
                vals |-> <<v>>, net |-> outcome]
    /\ ops' = ops - 1
    /\ UNCHANGED <<tx, pre>>

\* JSONObject(v, schema), the remote end answering, answering with an
\* error status, or out of reach
NewWithRef ==
    \E v \in RefDocs, schema \in RefSchemas, outcome \in FetchOutcomes :
       RefConstructed(v, schema, outcome,
                      ObjectNewFetching(heap, v, schema, outcome))

NextRef == NewWithRef

SpecRef == InitRef /\ [][NextRef]_vars

---------------------------------------------------------------------------
(* Search: JSONBase.search hands the node to the path evaluator and        *)
(* gathers the values of the matches in a new JSONArray                    *)

MaxMatches == 2

\* the values a query can match below self: self and every value stored
\* in a node reachable from it, the unwrapped True, False and None included
Matchable(h, self) ==
    {self} \cup UNION {ChildSlots(h, n) : n \in Reach(h, self)}

\* [match.value for match in jsonpath_expr.find(self)]: the evaluator
\* yields any sequence of values stored below self
Matches(h, self) ==
    UNION {[1..n -> Matchable(h, self)] : n \in 0..MaxMatches}

\* the schema JSONArray.__new__ is called with:
\* {'type': 'array', 'items': [el.schema for el in result]}
FoundSchema(h, result) ==
    Frag("array", NoProps, "list", [i \in 1..Len(result) |-> h[result[i]].schema])

\* identity of the fragment search builds; it is not one of SchemaDef,
\* the action records its content
SFound == LastSchema + 1

\* outcome of search: heap, returned slot, schema of the result, exception
Found(h, slot, schema, e) == [h |-> h, slot |-> slot, schema |-> schema, err |-> e]

\* JSONBase.__init__ of the result resolves the refs of each fragment of
\* the 'items' list
FoundResolved(schema) ==
    [schema EXCEPT !.items = [i \in 1..Len(schema.items) |-> ResolveRefs(schema.items[i])]]

\* JSONBase.search(self, query), the query matching result.  el.schema of
\* a value that is no proxy raises AttributeError; the proxies are
\* appended as they are, wrap returning them
Search(h, self, result) ==
    IF \E i \in 1..Len(result) : ~IsNode(result[i])
      THEN Found(h, NoRef, Frag("none", NoProps, "absent", <<>>), "AttributeError")
    ELSE Found(Append(h, [Node("array", 0, SFound, Len(h) + 1, Len(h) + 1)
                            EXCEPT !.items = result]),
               Len(h) + 1,
               FoundResolved(FoundSchema(h, result)),
               FirstErr([i \in 1..Len(result) |-> ResolveNow(h[result[i]].schema)]))

SearchDocs ==
    {DictOf(a, f) : a \in RoundVals \cup {NoValue}, f \in RoundVals \cup {NoValue}}

\* JSONObject(doc, schema)
InitSearch ==
    /\ \E doc \in SearchDocs, schema \in {SEmpty, SDoc} :
          heap = ObjectNew(<<>>, doc, schema).h
    /\ top = 1
    /\ tx = NoTx
    /\ pre = {}
    /\ last = Op("init", 1, 0, 0, <<>>)
    /\ err = "ok"
    /\ ops = 1

\* node.search(query)
Searched ==
    \E self \in Reach(heap, top) :
       \E result \in Matches(heap, self) :
          LET f == Search(heap, self, result)
          IN  /\ ops > 0
              /\ Len(f.h) <= MaxNodes
              /\ heap' = f.h
              /\ err' = f.err
              /\ last' = [op |-> "search", self |-> self, vals |-> result,
                          found |-> f.slot, schema |-> f.schema,
                          before |-> heap]
              /\ ops' = ops - 1
              /\ UNCHANGED <<top, tx, pre>>

NextSearch == Searched

SpecSearch == InitSearch /\ [][NextSearch]_vars

---------------------------------------------------------------------------
(* Validation of documents: members are stored and nodes are validated,    *)
(* under schemas with and without an 'enumSource'                          *)

MaxValOps == 2

ValSchemas == {SEnumDoc, SDoc, SEmpty}

\* the members of the documents: texts, among them 'type', the values
\* wrap leaves unwrapped, a mapping
ValVals ==
    {RStr(Ellis), RStr(TypeWord), RBool(TRUE), RNull,
     RDict(<< <<"family_name", RStr(Ellis)>> >>)}

ValLists == {RList(<<>>), RList(<<RStr(Ellis)>>)}

ValDocs ==
    {DictOf(a, f) : a \in ValLists \cup {NoValue}, f \in ValVals \cup {NoValue}}

\* JSONObject(doc, schema)
InitVal ==
    /\ \E doc \in ValDocs, schema \in ValSchemas :
          heap = ObjectNew(<<>>, doc, schema).h
    /\ top = 1
    /\ tx = NoTx
    /\ pre = {}
    /\ last = Op("init", 1, 0, 0, <<>>)
    /\ err = "ok"
    /\ ops = MaxValOps

\* node[name] = value
ValSet ==
    \E self \in Objects, name \in Keys, value \in ValVals :
       Apply(ObjSetItem(heap, self, name, value),
             Op("set", self, 0, 0, <<value>>))

\* node.append(value)
ValAppend ==
    \E self \in Arrays, value \in ValVals :
       Apply(ArrAppend(heap, self, value),
             Op("append", self, 0, Len(heap[self].items), <<value>>))

\* node.validate(): external is the outcome of self._validate_external()
ValidateNode ==
    \E self \in Reach(heap, top) :
       /\ ops > 0
       /\ err' = Validate(heap, self)
       /\ last' = [op |-> "validate", self |-> self,
                   external |-> ValidateExternal(heap, <<self>>)]
       /\ ops' = ops - 1
       /\ UNCHANGED <<heap, top, tx, pre>>

NextVal == ValSet \/ ValAppend \/ ValidateNode

SpecVal == InitVal /\ [][NextVal]_vars

---------------------------------------------------------------------------
(* Properties *)

\* the fragment a node carries and the fragment of a position, both read
\* as "unconstrained" when None or {}
Carries(h, slot, schema) == OrEmpty(h[slot].schema) = OrEmpty(schema)

\* every proxied element of array self from 0-based position from on
\* carries the fragment of its position
PositionsFrom(h, self, from) ==
    \A i \in 1..Len(h[self].items) :
       (i - 1 >= from /\ IsNode(h[self].items[i])) =>
          Carries(h, h[self].items[i], GetSchema(h, self, i - 1))

\* C1: when validate(clone) fails at the exit of the block, the node the
\* context was opened on reads, at every depth, as it did when the block
\* was entered.
C1_AtomicOnFailure ==
    (last.op = "exit" /\ ~last.raised /\ err = "ValidationError") =>
       Content(heap, tx.json) = pre

\* C2: at every point inside the block, the node the context was opened on
\* reads, at every depth, as it did when the block was entered.
C2_Isolation == tx.active => Content(heap, tx.json) = pre

\* C3: after a commit the node has exactly the clone's content (same keys
\* or length, same values); a key deleted from the clone is gone.
C3_CommitReplaces ==
    (last.op = "exit" /\ last.updated /\ err = "ok") =>
       Content(heap, tx.json) = Content(heap, tx.copy)

\* C4: when the block itself raises, that failure propagates, validate is
\* not run on the clone and nothing is committed: the exit step leaves
\* every object as it was.
C4_BlockRaised ==
    [][(tx.active /\ ~tx'.active /\ last'.raised) =>
         (/\ err' = "BlockError"
          /\ ~last'.validated
          /\ ~last'.updated
          /\ heap' = heap)]_vars

\* a block that mutated its clone and then raised has been left
C4_Witness ==
    /\ last.op = "exit"
    /\ last.raised
    /\ Content(heap, tx.copy) # pre

\* C5: a context on a leaf whose block completes always fails with the
\* "is immutable" RuntimeError, whether or not the leaf satisfies its
\* schema, and the leaf's value is unchanged.
C5_LeafImmutable ==
    (last.op = "exit" /\ ~last.raised /\ IsLeaf(heap, tx.json)) =>
       (err = "RuntimeError" /\ Content(heap, tx.json) = pre)

\* C6: after a sequence of array operations ending in a completed insert or
\* slice assignment, every element carries the fragment of its position.
C6_PositionalConsistency ==
    (last.op \in {"insert", "setslice"} /\ err = "ok") =>
       PositionsFrom(heap, last.self, 0)

\* C7: insert accepts every value wrap accepts, booleans included, next to
\* any existing element: it completes without error, the array grows by
\* one and every proxied element from the inserted position on carries the
\* fragment of its new position.
C7_InsertAcceptsPassthrough ==
    last.op = "insert" =>
       (/\ err = "ok"
        /\ Len(heap[last.self].items) = last.n + 1
        /\ PositionsFrom(heap, last.self, InsertIndex(last.n, last.index)))

\* C8: append and extend wrap each new value against the fragment of the
\* position it ends up at: value j of the call, stored at n + j, carries
\* getChildSchema(n + j).
C8_AppendExtendPosition ==
    (last.op \in {"append", "extend"} /\ err = "ok") =>
       \A j \in 1..Len(last.vals) :
          IsNode(heap[last.self].items[last.n + j]) =>
             Carries(heap, heap[last.self].items[last.n + j],
                     GetSchema(heap, last.self, last.n + j - 1))

\* C9: after construction from a raw value and any direct mutations, every
\* node reachable from the top node has the top node as its root.
C9_RootInvariant ==
    (~tx.active /\ pre = {}) =>
       \A n \in Reach(heap, top) : heap[n].root = top

\* C10: outside a block, every proxy stored as a child of a container
\* reachable from the document has that container as its parent, and the
\* document is its own parent; commits included.
C10_ParentInvariant ==
    ~tx.active =>
       /\ heap[top].parent = top
       /\ \A P \in Reach(heap, top) :
             \A c \in ChildSlots(heap, P) : IsNode(c) => heap[c].parent = P

\* the slot the last store through wrap wrote
StoredSlot ==
    IF last.op = "wrapset" THEN heap[last.self].fields[last.name]
    ELSE heap[last.self].items[last.index + 1]

\* a native value with nothing of an unknown type in it (to depth two)
Representable(v) ==
    /\ v.t # "other"
    /\ \A i \in 1..Len(v.kv) : v.kv[i][2].t # "other"
    /\ \A i \in 1..Len(v.el) : v.el[i].t # "other"

\* the last store built a new proxy of the given kind and stored it
BuiltNew(kind) ==
    /\ err = "ok"
    /\ StoredSlot = last.n + 1
    /\ heap[StoredSlot].kind = kind

\* the last store stored the slot as it was given and built no proxy
PassedThrough(slot) ==
    /\ err = "ok"
    /\ StoredSlot = slot
    /\ Len(heap) = last.n

\* C11: wrap returns a proxy, a boolean or null unchanged (the same
\* object, no new proxy); it builds an object proxy for a mapping, an
\* array proxy for a sequence, a string proxy for text, an integer proxy
\* for an integer and a number proxy for a float, never an integer proxy
\* for a boolean; any other type fails with TypeError and the container
\* being written is left as it was.
C11_WrapDispatch ==
    last.op \in {"wrapset", "wrapappend"} =>
       CASE last.vals[1].t = "node" -> PassedThrough(last.vals[1].p)
         [] last.vals[1].t = "bool" ->
              PassedThrough(IF last.vals[1].p = 1 THEN PTrue ELSE PFalse)
         [] last.vals[1].t = "null" -> PassedThrough(PNull)
         [] ~Representable(last.vals[1]) ->
              err = "TypeError" /\ Content(heap, last.self) = pre
         [] last.vals[1].t = "dict" -> BuiltNew("object")
         [] last.vals[1].t = "list" -> BuiltNew("array")
         [] last.vals[1].t = "str" ->
              BuiltNew("string") /\ heap[StoredSlot].prim = last.vals[1].p
         [] last.vals[1].t = "int" ->
              BuiltNew("integer") /\ heap[StoredSlot].prim = last.vals[1].p
         [] last.vals[1].t = "float" ->
              BuiltNew("number") /\ heap[StoredSlot].prim = last.vals[1].p

\* a boolean has been stored as it is, and then a value of an unknown
\* type has been refused
C11_Witness ==
    /\ last.op = "wrapset"
    /\ last.vals[1].t = "other"
    /\ err = "TypeError"
    /\ \E k \in Keys : heap[last.self].fields[k] = PTrue

\* Draft4Validator.is_type on a native value
RawTypeOk(v, type) ==
    CASE type = "any"     -> TRUE
      [] type = "object"  -> v.t = "dict"
      [] type = "array"   -> v.t = "list"
      [] type = "string"  -> v.t = "str"
      [] type = "integer" -> v.t = "int"
      [] type = "number"  -> v.t \in {"int", "float"}
      [] type = "boolean" -> v.t = "bool"
      [] type = "null"    -> v.t = "null"
      [] OTHER            -> FALSE

RECURSIVE RawConforms(_, _)
\* the native value v is valid against the fragment schema
RawConforms(v, schema) ==
    /\ RawTypeOk(v, SchemaDef[schema].type)
    /\ \A i \in 1..Len(v.kv) :
          SchemaDef[schema].props[v.kv[i][1]] # SNone =>
             RawConforms(v.kv[i][2], SchemaDef[schema].props[v.kv[i][1]])
    /\ SchemaDef[schema].itemsKind = "dict" =>
          \A i \in 1..Len(v.el) : RawConforms(v.el[i], SchemaDef[schema].items[1])
    /\ SchemaDef[schema].itemsKind = "list" =>
          \A i \in 1..Min(Len(v.el), Len(SchemaDef[schema].items)) :
             RawConforms(v.el[i], SchemaDef[schema].items[i])

\* C12: for every native value v and every schema s that v is valid
\* against, schemas that declare getter, setter or template properties
\* included, the proxy built from (v, s) is built and compares equal to v
\* at every depth.
C12_RoundTrip ==
    (last.op = "new" /\ RawConforms(last.vals[1], last.schema)) =>
       (err = "ok" /\ Unwrap(heap, top) = last.vals[1])

\* the hooks declared for the derived property of the document
AuthorsHook == HookDef[PropSchema(heap[top].schema, "authors")]

\* get("authors") returns what is computed and never what is stored: the
\* getter's result when a getter is declared; else the text rendered from
\* the watched value, when that value can be read
ReadsComputed ==
    /\ ObjGet(heap, top, "authors").kind # "stored"
    /\ AuthorsHook.getter # "none" =>
          (ObjGet(heap, top, "authors").kind = "getter"
           /\ ObjGet(heap, top, "authors").text = Smith)
    /\ (AuthorsHook.getter = "none" /\ heap[top].fields["family_name"] # Absent) =>
          (ObjGet(heap, top, "authors").kind = "template"
           /\ ObjGet(heap, top, "authors").text =
                 <<"stored", Content(heap, heap[top].fields["family_name"])>>)

\* C13: for a property that declares a getter, or a template and watch,
\* get(key) returns the computed result (the getter's before the
\* template's) and ignores the value stored under the key; a set on that
\* key leaves the result of get(key) as it was.
C13_DerivedPurity ==
    [][/\ ReadsComputed
       /\ ReadsComputed'
       /\ (last'.op = "dset" /\ last'.name = "authors") =>
             ObjGet(heap', top, "authors") = ObjGet(heap, top, "authors")]_vars

\* a value has been stored under the derived key of a document whose
\* property is rendered from a template, and the read returns the
\* rendered text
C13_Witness ==
    /\ last.op = "dset"
    /\ last.name = "authors"
    /\ err = "ok"
    /\ IsNode(heap[top].fields["authors"])
    /\ heap[top].schema = STemplDoc
    /\ ObjGet(heap, top, "authors").kind = "template"

\* the fragment the '$ref' of the schema the last document was built under
\* has become
ResolvedRef ==
    IF last.schema = SRemote THEN heap[top].schema
    ELSE PropSchema(heap[top].schema, "family_name")

\* C14: when the schema holds a remote '$ref' and the fetch fails, by a
\* non-success status or by a network error raised by the fetch itself,
\* the construction succeeds and the fragment resolves to the empty
\* schema; a construction fails only on an unresolvable local '$ref'.
C14_RemoteRefDegrades ==
    last.op = "newref" =>
       /\ (last.schema \in {SExt, SRemote} /\ last.net \in {"status", "network"}) =>
             (err = "ok" /\ ResolvedRef = SEmpty)
       /\ err # "ok" => last.schema = SBad


\* C15: a search with n matches returns a new JSONArray of length n whose
\* elements are the matched nodes themselves, in match order, and whose
\* schema is {type: array, items: [schema of each match]}; the searched
\* tree is unchanged
C15_SearchSynthesis ==
    last.op = "search" =>
       /\ err = "ok"
       /\ last.found = Len(last.before) + 1
       /\ heap[last.found].kind = "array"
       /\ heap[last.found].items = last.vals
       /\ last.schema = Frag("array", NoProps, "list",
                             [i \in 1..Len(last.vals) |->
                                last.before[last.vals[i]].schema])
       /\ SubSeq(heap, 1, Len(last.before)) = last.before


\* the slot node[index] = value stored the value in
SetSlot == heap[last.self].items[last.n + last.index + 1]

\* C16: node[index] = value on an array of length n under a positional
\* items schema, -n <= index < 0: the stored element carries the fragment
\* of position n + index, whatever the number of positional fragments
C16_SetNegativeIndex ==
    (/\ last.op = "set"
     /\ err = "ok"
     /\ last.index < 0
     /\ 0 - last.n <= last.index
     /\ heap[last.self].schema # SNone
     /\ SchemaDef[heap[last.self].schema].itemsKind = "list"
     /\ IsNode(SetSlot))
    => Carries(heap, SetSlot, GetSchema(heap, last.self, last.n + last.index))


\* a[i:j] = new on a native list: a negative bound counts from the end,
\* both are clamped to the length, an empty range inserts at i
NativeSetSlice(a, i, j, new) ==
    LET lo == Max(0, Min(Len(a), IF i < 0 THEN Len(a) + i ELSE i))
        hi == Max(lo, Min(Len(a), IF j < 0 THEN Len(a) + j ELSE j))
    IN  SubSeq(a, 1, lo) \o new \o SubSeq(a, hi + 1, Len(a))

\* every element of array self is a proxy that carries the fragment of
\* its position
AllPositional(h, self) ==
    /\ \A i \in 1..Len(h[self].items) : IsNode(h[self].items[i])
    /\ PositionsFrom(h, self, 0)

\* C17: node[start:stop] = values on an array whose elements all carry
\* the fragment of their position: for every start and stop the resulting
\* sequence equals the native slice assignment and every element carries
\* the fragment of its new position
C17_SetSlicePositions ==
    [][(last'.op = "setslice" /\ AllPositional(heap, last'.self)) =>
          /\ err' = "ok"
          /\ Unwrap(heap', last'.self) =
                RList(NativeSetSlice(Unwrap(heap, last'.self).el,
                                     last'.index, last'.stop, last'.vals))
          /\ PositionsFrom(heap', last'.self, 0)]_vars


\* the values stored under property name of the document: the elements
\* of the array stored there, the one value stored there otherwise
StoredUnder(h, root, name) ==
    IF h[root].kind # "object" \/ h[root].fields[name] = Absent THEN {}
    ELSE IF IsNode(h[root].fields[name]) /\ h[h[root].fields[name]].kind = "array"
      THEN {Unwrap(h, h[h[root].fields[name]].items[i]) :
               i \in 1..Len(h[h[root].fields[name]].items)}
    ELSE {Unwrap(h, h[root].fields[name])}

\* the value of the validated node is one of the values the document
\* holds under the property its 'enumSource' names
InEnumSource ==
    Unwrap(heap, last.self) \in
       StoredUnder(heap, top, EnumDef[heap[last.self].schema])

\* C18: validate on a node whose schema declares enumSource P passes its
\* external phase only if the value of the node is one of the values the
\* root holds under P, and fails with a validation error otherwise
C18_EnumSource ==
    (/\ last.op = "validate"
     /\ heap[last.self].schema # SNone
     /\ EnumDef[heap[last.self].schema] # "")
    => /\ last.external = "ok" => InEnumSource
       /\ ~InEnumSource => last.external = "ValidationError"


\* no node of the tree below n carries a fragment that declares a hook
NoHooksBelow(h, n) ==
    \A q \in Reach(h, n) :
       /\ h[q].schema # SNone
       /\ HookDef[h[q].schema] = NoHook
       /\ EnumDef[h[q].schema] = ""

\* C19: validate on a tree that holds boolean or null members, under a
\* schema without hooks, ends in success or in a validation error
C19_ValidateTotal ==
    (last.op = "validate" /\ NoHooksBelow(heap, last.self))
    => err \in {"ok", "ValidationError"}

====
